---- MODULE Spec2Model ----
(***************************************************************************)
(* A model of one Infinichat room (src/src/InfinichatInstance.ts, the      *)
(* Durable Object of lines 1-566): the live connection map `clients`, the  *)
(* reverse index `activeRegions`, the per-socket attachment kept by the    *)
(* transport, and the handlers fetch, subscribe, unsubscribe, update,      *)
(* load, webSocketClose, webSocketError and the constructor (revival).     *)
(*                                                                         *)
(* Strings are TLA+ strings read one character at a time, so that          *)
(* split("-"), the numeric tests of isValidRegion and the JSON text of an  *)
(* attachment are computed, not assumed.                                   *)
(***************************************************************************)
EXTENDS Integers, Sequences, FiniteSets, TLC

\* ---------------------------------------------------------------- bounds

\* Number of sockets the transport ever hands to the room.
NumConns == 3

\* Number of sockets that connect in the two-connection specifications.
PairConns == 2

\* Number of distinct well-formed region keys clients name.
NumRegions == 3

\* Number of those keys named in the three-connection specification.
RoomRegions == 1

\* Longest well-formed regions list of a request in the specifications that
\* also update or revive.
ShortReq == 1

\* Longest batch of an update request.
MaxBatch == 2

\* MAX_ACTIVE_REGIONS is 24 in the source (line 19); the handlers only compare
\* list lengths with it, so the model bounds it lower to keep eviction reachable.
MAX_ACTIVE_REGIONS == 2

\* REGION_WIDTH and REGION_HEIGHT are 72 and 48 in the source (lines 31-32);
\* saveRegion only compares the content's length with their product, so the
\* model bounds them lower to enumerate every content of that length.
REGION_WIDTH == 2

REGION_HEIGHT == 1

\* Longest enumerated string handed to isValidRegion.
MaxKeyLen == 3

\* Number of messages that arrive in the specification of arrival order.
MaxArrivals == 4

Conns == 1 .. NumConns

\* ------------------------------------------------------- strings, numbers

DigitChars == <<"1", "2", "3", "4", "5", "6", "7", "8", "9">>

Digits == {"0", "1", "2", "3", "4", "5", "6", "7", "8", "9"}

\* The character of s at 1-based index i.
Char(s, i) == SubSeq(s, i, i)

\* The canonical key "<i>-<i>".
Key(i) == DigitChars[i] \o "-" \o DigitChars[i]

ValidKeys == {Key(i) : i \in 1 .. NumRegions}

\* A key no validator accepts.
BadKey == "a-b"

RECURSIVE SplitFrom(_, _, _, _)
SplitFrom(s, sep, i, cur) ==
    IF i > Len(s) THEN <<cur>>
    ELSE IF Char(s, i) = sep THEN <<cur>> \o SplitFrom(s, sep, i + 1, "")
    ELSE SplitFrom(s, sep, i + 1, cur \o Char(s, i))

\* String.prototype.split(separator)
Split(s, sep) == SplitFrom(s, sep, 1, "")

Count(s, ch) == Cardinality({i \in 1 .. Len(s) : Char(s, i) = ch})

\* isNaN(+part), over the alphabet digits, ".", letters: the empty string is
\* 0, a decimal literal with at most one "." and at least one digit is a
\* number, everything else is NaN.
IsNaNStr(part) ==
    ~ (\/ part = ""
       \/ /\ \A i \in 1 .. Len(part) : Char(part, i) \in Digits \cup {"."}
          /\ Count(part, ".") <= 1
          /\ \E i \in 1 .. Len(part) : Char(part, i) \in Digits)

\* (+part) % 1 !== 0 for a part that is a number: a non-zero digit follows
\* the ".".
HasFraction(part) ==
    \E i \in 1 .. Len(part) :
        /\ Char(part, i) = "."
        /\ \E j \in (i + 1) .. Len(part) : Char(part, j) \in Digits \ {"0"}

isValidRegion(regionString) ==
    IF Len(regionString) = 0 THEN FALSE
    ELSE LET splitRegion == Split(regionString, "-")
         IN  IF Len(splitRegion) # 2 THEN FALSE
             ELSE IF IsNaNStr(splitRegion[1]) \/ IsNaNStr(splitRegion[2]) THEN FALSE
             ELSE IF HasFraction(splitRegion[1]) THEN FALSE
             ELSE IF HasFraction(splitRegion[2]) THEN FALSE
             ELSE TRUE

\* A JS number: an integer part and a fractional part in tenths.
Num(i, f) == [int |-> i, frac |-> f]

isValidUpdate(changeObject) ==
    IF ~ isValidRegion(changeObject.region) THEN FALSE
    ELSE IF changeObject.position.x.frac # 0 THEN FALSE
    ELSE IF changeObject.position.y.frac # 0 THEN FALSE
    ELSE IF Len(changeObject.value) # 1 THEN FALSE
    ELSE TRUE

\* ------------------------------------------------------------ array helpers

Includes(arr, x) == \E i \in 1 .. Len(arr) : arr[i] = x

\* Array.prototype.indexOf, 1-based; 0 when absent.
IndexOf(arr, x) ==
    IF Includes(arr, x) THEN CHOOSE i \in 1 .. Len(arr) :
                                 arr[i] = x /\ \A j \in 1 .. (i - 1) : arr[j] # x
    ELSE 0

\* arr.slice(from) and arr.slice(0, to), 0-based as in the source.
SliceFrom(arr, from) == SubSeq(arr, from + 1, Len(arr))

SliceTo(arr, to) == SubSeq(arr, 1, to)

\* arr with the element at 1-based index idx removed (splice(idx, 1) in place).
RemoveAt(arr, idx) == SubSeq(arr, 1, idx - 1) \o SubSeq(arr, idx + 1, Len(arr))

Max(a, b) == IF a >= b THEN a ELSE b

Range(arr) == {arr[i] : i \in 1 .. Len(arr)}

NoDuplicates(arr) == \A i, j \in 1 .. Len(arr) : arr[i] = arr[j] => i = j

\* ------------------------------------------------------------------- maps

MapSet(m, k, v) == [x \in DOMAIN m \cup {k} |-> IF x = k THEN v ELSE m[x]]

MapDelete(m, k) == [x \in DOMAIN m \ {k} |-> m[x]]

EmptyMap == [x \in {} |-> 0]

\* ------------------------------------------------------------------ state

VARIABLES
    sockets,        \* transport: each socket is "none", "open", "broken" or "closed"
    attachment,     \* transport: ws -> the string given to serializeAttachment
    actor,          \* "live", or "failed" when the constructor threw
    clients,        \* Map<WebSocket, ClientState>
    activeRegions,  \* Map<string, WebSocket[]>
    storage,        \* ctx.storage: region key -> stored value
    sent,           \* ws -> the envelopes sent to it by the last handler
    last,           \* the handler that ran last, its socket, whether it accepted
                    \* the request, and the regions an accepted request names
    request,        \* the raw message webSocketMessage got last (NoRequest after
                    \* a step that is no message)
    called,         \* the sockets whose send() the last handler called
    inbox,          \* runtime: the messages that arrived and are not yet handed
                    \* to webSocketMessage, oldest first, numbered by arrival
    arrivals,       \* runtime: the number of messages that arrived
    delivered       \* ws -> the arrival numbers of the updates whose envelopes
                    \* it was sent, one per envelope, in the order of the sends

vars == <<sockets, attachment, actor, clients, activeRegions, storage, sent, last,
          request, called, inbox, arrivals, delivered>>

\* A step that is no arrival and no hand-over of a queued message.
QueueIdle == UNCHANGED <<inbox, arrivals, delivered>>

\* What `request` holds after a step that is no message.
NoRequest == [none |-> TRUE]

\* The value of a field that is absent (undefined in the source).
Undefined == [undefined |-> TRUE]

\* The default ClientState of the source; momentum plays no part in any
\* handler and is left out.
DefaultClientState == [subscribedRegions |-> <<>>]

RoomId == "room-id"

RoomName == "room"

\* serializeMsg: the envelope, before JSON.stringify.
serializeMsg(type, data) == [id |-> RoomId, name |-> RoomName, type |-> type, data |-> data]

NoneSent == [c \in Conns |-> <<>>]

\* state.getWebSockets(): the accepted sockets that are not closed, in
\* accept order (the model accepts them in increasing order of name).
getWebSockets == {c \in Conns : sockets[c] \in {"open", "broken"}}

\* ws.send(msg) throws on a socket that is not open.
SendThrows(ws) == sockets[ws] # "open"

\* ------------------------------------------------- attachment (JSON text)

Quote(str) == "\"" \o str \o "\""

RECURSIVE Join(_, _)
Join(parts, sep) ==
    IF Len(parts) = 0 THEN ""
    ELSE IF Len(parts) = 1 THEN parts[1]
    ELSE parts[1] \o sep \o Join(Tail(parts), sep)

\* The text before and after the array of a serialized ClientState.
JSONPrefix == "{\"subscribedRegions\":["

JSONSuffix == "]}"

\* JSON.stringify of a ClientState.
JSONstringify(clientState) ==
    JSONPrefix
        \o Join([i \in 1 .. Len(clientState.subscribedRegions) |->
                    Quote(clientState.subscribedRegions[i])], ",")
        \o JSONSuffix

IsQuoted(tok) == Len(tok) >= 2 /\ Char(tok, 1) = "\"" /\ Char(tok, Len(tok)) = "\""

Unquote(tok) == SubSeq(tok, 2, Len(tok) - 1)

\* The text between "[" and "]" of a text with the prefix and the suffix.
ArrayText(text) == SubSeq(text, Len(JSONPrefix) + 1, Len(text) - Len(JSONSuffix))

\* The elements of the array text, still quoted.
ArrayItems(text) ==
    LET inner == ArrayText(text)
    IN  IF inner = "" THEN <<>> ELSE Split(inner, ",")

\* Whether JSON.parse yields an object with an array of strings under
\* subscribedRegions.
ParsesAsClientState(text) ==
    /\ Len(text) >= Len(JSONPrefix) + Len(JSONSuffix)
    /\ SubSeq(text, 1, Len(JSONPrefix)) = JSONPrefix
    /\ SubSeq(text, Len(text) - Len(JSONSuffix) + 1, Len(text)) = JSONSuffix
    /\ LET items == ArrayItems(text)
       IN  \A i \in 1 .. Len(items) : IsQuoted(items[i])

ParseItems(text) ==
    LET items == ArrayItems(text)
    IN  [i \in 1 .. Len(items) |-> Unquote(items[i])]

\* JSON.parse(ws.deserializeAttachment()): deserializeAttachment returns null
\* when nothing was attached and JSON.parse(null) is null; other text either
\* parses to an object with a subscribedRegions array or throws.
ParseAttachment(ws) ==
    IF ws \notin DOMAIN attachment
    THEN [throws |-> FALSE, isNull |-> TRUE, state |-> DefaultClientState]
    ELSE IF ParsesAsClientState(attachment[ws])
    THEN [throws |-> FALSE, isNull |-> FALSE,
          state |-> [subscribedRegions |-> ParseItems(attachment[ws])]]
    ELSE [throws |-> TRUE, isNull |-> FALSE, state |-> DefaultClientState]

\* A save that leaves the attachment as it is.
SkipClientSave(cl, ws) == attachment

\* triggerClientSave, given the clients map after the handler's update.
triggerClientSave(cl, ws) ==
    IF ws \notin DOMAIN cl THEN attachment
    ELSE MapSet(attachment, ws, JSONstringify(cl[ws]))

\* ------------------------------------------------------------ region index

\* One step of addClientToRegions' forEach.
AddClientToRegion(ar, ws, region) ==
    LET existingClients == IF region \in DOMAIN ar THEN ar[region] ELSE <<>>
    IN  IF IndexOf(existingClients, ws) # 0 THEN ar
        ELSE MapSet(ar, region, Append(existingClients, ws))

RECURSIVE addClientToRegions(_, _, _)
addClientToRegions(ar, ws, regions) ==
    IF Len(regions) = 0 THEN ar
    ELSE addClientToRegions(AddClientToRegion(ar, ws, Head(regions)), ws, Tail(regions))

\* An unload that keeps the region's entry, empty.
KeepEmptyRegion(ar, region) == MapSet(ar, region, <<>>)

unloadRegion(ar, region) == MapDelete(ar, region)

\* One step of removeClientFromRegions' forEach.
RemoveClientFromRegion(ar, ws, region) ==
    LET existingClients == IF region \in DOMAIN ar THEN ar[region] ELSE <<>>
        idx == IndexOf(existingClients, ws)
    IN  IF idx = 0 THEN ar
        ELSE IF Len(RemoveAt(existingClients, idx)) = 0 THEN unloadRegion(ar, region)
        ELSE MapSet(ar, region, RemoveAt(existingClients, idx))

RECURSIVE removeClientFromRegions(_, _, _)
removeClientFromRegions(ar, ws, regions) ==
    IF Len(regions) = 0 THEN ar
    ELSE removeClientFromRegions(RemoveClientFromRegion(ar, ws, Head(regions)),
                                 ws, Tail(regions))

\* ---------------------------------------------------------------- inputs

RECURSIVE SeqsUpTo(_, _)
SeqsUpTo(S, n) ==
    IF n = 0 THEN {<<>>}
    ELSE LET shorter == SeqsUpTo(S, n - 1)
         IN  shorter \cup {Append(q, x) : q \in {r \in shorter : Len(r) = n - 1}, x \in S}

\* The regions lists of requests over the well-formed keys `keys`: every list
\* of at most n of them, the malformed key alone and after a well-formed
\* one, and one list that is one entry too long.
RegionLists(keys, n) ==
    SeqsUpTo(keys, n)
        \cup {<<BadKey>>, <<Key(1), BadKey>>}
        \cup {[i \in 1 .. (MAX_ACTIVE_REGIONS + 1) |-> Key(1)]}

\* data of a subscribe, unsubscribe or load message: no regions field, a
\* regions field that is not an array, or an array of keys.
RegionsDataOver(keys, n) ==
    {[other |-> TRUE]}
        \cup {[regions |-> [isArray |-> FALSE, items |-> <<>>]]}
        \cup {[regions |-> [isArray |-> TRUE, items |-> r]] : r \in RegionLists(keys, n)}

RegionsData == RegionsDataOver(ValidKeys, MAX_ACTIVE_REGIONS)

ShortRegionsData == RegionsDataOver(ValidKeys, ShortReq)

\* A well-formed single-cell edit of region k.
GoodUpdate(k) == [region |-> k, position |-> [x |-> Num(0, 0), y |-> Num(0, 0)], value |-> "x"]

\* One edit for each way isValidUpdate fails: a bad key, a fractional x, a
\* fractional y, a value of two characters.
BadUpdates ==
    {GoodUpdate(BadKey),
     [GoodUpdate(Key(1)) EXCEPT !.position.x = Num(0, 5)],
     [GoodUpdate(Key(1)) EXCEPT !.position.y = Num(0, 5)],
     [GoodUpdate(Key(1)) EXCEPT !.value = "xy"]}

\* The keys that requests name.
RequestKeys == ValidKeys \cup {BadKey}

\* isValidRegion over the keys that requests name, computed once: the
\* handlers look a key up here.
ValidRegionKeys == {k \in RequestKeys : isValidRegion(k)}

\* The edits that requests carry.
RequestUpdates == {GoodUpdate(k) : k \in ValidKeys} \cup BadUpdates

\* isValidUpdate over the edits that requests carry, computed once.
ValidUpdates == {u \in RequestUpdates : isValidUpdate(u)}

\* The batches of update requests over the keys `keys`: every batch of at
\* most MaxBatch well-formed edits, and each malformed edit alone and after
\* a well-formed one.
UpdateBatches(keys) ==
    SeqsUpTo({GoodUpdate(k) : k \in keys}, MaxBatch)
        \cup {<<u>> : u \in BadUpdates}
        \cup {<<GoodUpdate(Key(1)), u>> : u \in BadUpdates}

\* data of an update message: no updates field, one that is not an array,
\* or a batch.
UpdatesDataOver(keys) ==
    {[other |-> TRUE]}
        \cup {[updates |-> [isArray |-> FALSE, items |-> <<>>]]}
        \cup {[updates |-> [isArray |-> TRUE, items |-> u]] : u \in UpdateBatches(keys)}

UpdatesData == UpdatesDataOver(ValidKeys)

\* !data.regions || !Array.isArray(data.regions)
RegionsMalformed(data) == "regions" \notin DOMAIN data \/ ~ data.regions.isArray

\* ------------------------------------------------------------- handlers

\* A handleError that also forgets the connection.
RejectForgetting(op, ws, error, named) ==
    /\ sent' = [NoneSent EXCEPT ![ws] = <<serializeMsg("error", [error |-> error])>>]
    /\ last' = [op |-> op, ws |-> ws, ok |-> FALSE, regions |-> named]
    /\ called' = {ws}
    /\ clients' = MapDelete(clients, ws)
    /\ UNCHANGED <<sockets, attachment, actor, activeRegions, storage>>

\* handleError: one error envelope to ws, nothing else changes. `named` is
\* what `last` keeps of the rejected request.
RejectNaming(op, ws, error, named) ==
    /\ sent' = [NoneSent EXCEPT ![ws] = <<serializeMsg("error", [error |-> error])>>]
    /\ last' = [op |-> op, ws |-> ws, ok |-> FALSE, regions |-> named]
    /\ called' = {ws}
    /\ UNCHANGED <<sockets, attachment, actor, clients, activeRegions, storage>>

Reject(op, ws, error) == RejectNaming(op, ws, error, <<>>)

\* data.regions of an undefined data throws a TypeError out of the handler:
\* nothing is sent and nothing changes.
Throws(op, ws) ==
    /\ sent' = NoneSent
    /\ last' = [op |-> op, ws |-> ws, ok |-> FALSE, regions |-> <<>>]
    /\ called' = {}
    /\ UNCHANGED <<sockets, attachment, actor, clients, activeRegions, storage>>

\* A message handler runs for an open socket of a constructed actor.
CanHandle(ws) == actor = "live" /\ sockets[ws] = "open"

\* clients.get(ws), with the default the handlers fall back to.
ClientStateOrDefault(ws) == IF ws \in DOMAIN clients THEN clients[ws] ELSE DefaultClientState

\* sendRegions: storage.get(regions) holds the stored keys only; a value that
\* is falsy (the empty string) is reported as null.
sendRegions(regions) ==
    LET found == Range(regions) \cap DOMAIN storage
    IN  serializeMsg("regionData",
            [regions |-> [r \in found |->
                IF Len(storage[r]) = 0 THEN [isNull |-> TRUE, text |-> ""]
                ELSE [isNull |-> FALSE, text |-> storage[r]]]])

\* A reducer that pushes every region.
AccumPushAlways(accum, region) == Append(accum, region)

\* The reducer of subscribe: push a region not yet accumulated.
AccumPush(accum, region) ==
    IF IndexOf(accum, region) = 0 THEN Append(accum, region) ELSE accum

RECURSIVE Reduce(_, _)
Reduce(accum, rest) ==
    IF Len(rest) = 0 THEN accum ELSE Reduce(AccumPush(accum, Head(rest)), Tail(rest))

\* allRegions with the requested regions first.
AllRegionsRequestedFirst(existingRegions, requested) ==
    Reduce(<<>>, requested \o existingRegions)

\* allRegions of subscribe: older subscriptions first, new ones last.
AllRegions(existingRegions, requested) == Reduce(<<>>, existingRegions \o requested)

\* subscribedRegions of subscribe: the last MAX_ACTIVE_REGIONS of allRegions.
SubscribedRegions(allRegions) ==
    SliceFrom(allRegions, Max(0, Len(allRegions) - MAX_ACTIVE_REGIONS))

\* unsubscribedRegions of subscribe: the overflow at the front of allRegions.
UnsubscribedRegions(allRegions) ==
    SliceTo(allRegions, Max(0, Len(allRegions) - MAX_ACTIVE_REGIONS))

\* The list subscribe stores in clients (and so in the attachment).
StoredOnSubscribe(allRegions) == allRegions

\* A validation that tests the keys before the length of the list.
SubscribeErrorKeysFirst(data, what) ==
    IF RegionsMalformed(data) THEN "Subscribe request is malformed"
    ELSE IF \E i \in 1 .. Len(data.regions.items) : data.regions.items[i] \notin ValidRegionKeys
    THEN "One or more region keys is invalid"
    ELSE IF Len(data.regions.items) = 0 THEN "Specify at least 1 region to subscribe to"
    ELSE IF Len(data.regions.items) > MAX_ACTIVE_REGIONS
    THEN "Cannot subscribe to more than MAX_ACTIVE_REGIONS regions"
    ELSE ""

\* The validation of subscribe and of load: "" when the request passes.
SubscribeError(data, what) ==
    IF RegionsMalformed(data)
    THEN (IF what = "load" THEN "Unsubscribe request is malformed"
                           ELSE "Subscribe request is malformed")
    ELSE IF Len(data.regions.items) = 0
    THEN (IF what = "load" THEN "Specify at least 1 region to load"
                           ELSE "Specify at least 1 region to subscribe to")
    ELSE IF Len(data.regions.items) > MAX_ACTIVE_REGIONS
    THEN (IF what = "load" THEN "Cannot load more than MAX_ACTIVE_REGIONS regions at a time"
                           ELSE "Cannot subscribe to more than MAX_ACTIVE_REGIONS regions")
    ELSE IF \E i \in 1 .. Len(data.regions.items) : data.regions.items[i] \notin ValidRegionKeys
    THEN "One or more region keys is invalid"
    ELSE ""

subscribe(ws, data) ==
    /\ CanHandle(ws)
    /\ LET error == SubscribeError(data, "subscribe")
       IN
       IF data = Undefined THEN Throws("subscribe", ws)
       ELSE IF error # ""
       THEN Reject("subscribe", ws, error)
       ELSE LET clientState == ClientStateOrDefault(ws)
                existingRegions == clientState.subscribedRegions
                allRegions == AllRegions(existingRegions, data.regions.items)
                subscribedRegions == SubscribedRegions(allRegions)
                unsubscribedRegions == UnsubscribedRegions(allRegions)
                cl == MapSet(clients, ws,
                             [clientState EXCEPT !.subscribedRegions =
                                 StoredOnSubscribe(allRegions)])
            IN  /\ clients' = cl
                /\ attachment' = triggerClientSave(cl, ws)
                /\ activeRegions' =
                     removeClientFromRegions(
                         addClientToRegions(activeRegions, ws, subscribedRegions),
                         ws, unsubscribedRegions)
                /\ sent' = [NoneSent EXCEPT ![ws] =
                              <<serializeMsg("subscriptions",
                                    [subscribedRegions |-> subscribedRegions,
                                     unsubscribedRegions |-> unsubscribedRegions]),
                                sendRegions(subscribedRegions)>>]
                /\ last' = [op |-> "subscribe", ws |-> ws, ok |-> TRUE,
                            regions |-> data.regions.items]
                /\ called' = {ws}
                /\ UNCHANGED <<sockets, actor, storage>>

\* The validation of unsubscribe: "" when the request passes.
UnsubscribeError(data) ==
    IF RegionsMalformed(data) THEN "Unsubscribe request is malformed"
    ELSE IF \E i \in 1 .. Len(data.regions.items) : data.regions.items[i] \notin ValidRegionKeys
    THEN "One or more region keys is invalid"
    ELSE ""

\* existingRegions.filter(region => !data.regions.includes(region))
FilterOut(existingRegions, removed) ==
    SelectSeq(existingRegions, LAMBDA region : ~ Includes(removed, region))

unsubscribe(ws, data) ==
    /\ CanHandle(ws)
    /\ LET error == UnsubscribeError(data)
       IN
       IF data = Undefined THEN Throws("unsubscribe", ws)
       ELSE IF error # ""
       THEN Reject("unsubscribe", ws, error)
       ELSE LET clientState == ClientStateOrDefault(ws)
                existingRegions == clientState.subscribedRegions
                updatedRegions == FilterOut(existingRegions, data.regions.items)
                cl == MapSet(clients, ws,
                             [clientState EXCEPT !.subscribedRegions = updatedRegions])
            IN  /\ clients' = cl
                /\ attachment' = triggerClientSave(cl, ws)
                /\ activeRegions' =
                     removeClientFromRegions(activeRegions, ws, data.regions.items)
                /\ sent' = NoneSent
                /\ last' = [op |-> "unsubscribe", ws |-> ws, ok |-> TRUE,
                            regions |-> data.regions.items]
                /\ called' = {}
                /\ UNCHANGED <<sockets, actor, storage>>

\* A load that records the regions it reads as the requester's subscriptions.
loadRecording(ws, data) ==
    /\ CanHandle(ws)
    /\ LET error == SubscribeError(data, "load")
       IN
       IF data = Undefined THEN Throws("load", ws)
       ELSE IF error # ""
       THEN Reject("load", ws, error)
       ELSE /\ sent' = [NoneSent EXCEPT ![ws] = <<sendRegions(data.regions.items)>>]
            /\ last' = [op |-> "load", ws |-> ws, ok |-> TRUE, regions |-> data.regions.items]
            /\ called' = {ws}
            /\ clients' = MapSet(clients, ws,
                                [ClientStateOrDefault(ws) EXCEPT
                                     !.subscribedRegions = data.regions.items])
            /\ UNCHANGED <<sockets, attachment, actor, activeRegions, storage>>

load(ws, data) ==
    /\ CanHandle(ws)
    /\ LET error == SubscribeError(data, "load")
       IN
       IF data = Undefined THEN Throws("load", ws)
       ELSE IF error # ""
       THEN Reject("load", ws, error)
       ELSE /\ sent' = [NoneSent EXCEPT ![ws] = <<sendRegions(data.regions.items)>>]
            /\ last' = [op |-> "load", ws |-> ws, ok |-> TRUE, regions |-> data.regions.items]
            /\ called' = {ws}
            /\ UNCHANGED <<sockets, attachment, actor, clients, activeRegions, storage>>

\* !data?.updates || !Array.isArray(data.updates)
UpdatesMalformed(data) == "updates" \notin DOMAIN data \/ ~ data.updates.isArray

\* The admission test of update: every update names a region of the
\* sender's stored subscribedRegions.
isClientSubscribed(clientState, updates) ==
    ~ \E i \in 1 .. Len(updates) :
          ~ Includes(clientState.subscribedRegions, updates[i].region)

\* The validation of update: "" when the request passes.
UpdateInvalid(data) ==
    IF UpdatesMalformed(data) THEN "Update request is malformed"
    ELSE IF Len(data.updates.items) = 0 THEN "Provide at least 1 change"
    ELSE IF \E i \in 1 .. Len(data.updates.items) : data.updates.items[i] \notin ValidUpdates
    THEN "Update values are invalid"
    ELSE ""

\* The admission of a valid update: "" when the batch is admitted.
NotAdmitted(ws, data) ==
    IF ws \notin DOMAIN clients THEN "Unknown client"
    ELSE IF ~ isClientSubscribed(clients[ws], data.updates.items)
    THEN "Attempted to update regions which client is not subscribed to"
    ELSE ""

\* newUpdateMessage: a fresh copy of region, position and value.
NewUpdateMessage(change) ==
    [region |-> change.region,
     position |-> [x |-> change.position.x, y |-> change.position.y],
     value |-> SubSeq(change.value, 1, 1)]

\* sendMessage: a send that throws only deletes the recipient from clients.
sendMessage(acc, client, type, data) ==
    IF SendThrows(client)
    THEN [acc EXCEPT !.cl = MapDelete(acc.cl, client), !.tried = @ \cup {client}]
    ELSE [acc EXCEPT !.out[client] = Append(@, serializeMsg(type, data)),
                     !.tried = @ \cup {client}]

\* A fan-out loop that skips nobody.
NeverSkip(client, ws) == FALSE

\* Whether the fan-out loop skips this subscriber.
SkipSelf(client, ws) == client = ws

\* A fan-out loop that a throwing send ends.
RECURSIVE FanOutUncaught(_, _, _, _)
FanOutUncaught(acc, ws, regionSubscribers, msg) ==
    IF Len(regionSubscribers) = 0 THEN acc
    ELSE IF SkipSelf(Head(regionSubscribers), ws)
    THEN FanOutUncaught(acc, ws, Tail(regionSubscribers), msg)
    ELSE IF SendThrows(Head(regionSubscribers))
    THEN sendMessage(acc, Head(regionSubscribers), "update", msg)
    ELSE FanOutUncaught(sendMessage(acc, Head(regionSubscribers), "update", msg),
                        ws, Tail(regionSubscribers), msg)

RECURSIVE FanOut(_, _, _, _)
FanOut(acc, ws, regionSubscribers, msg) ==
    IF Len(regionSubscribers) = 0 THEN acc
    ELSE FanOut(IF SkipSelf(Head(regionSubscribers), ws) THEN acc
                ELSE sendMessage(acc, Head(regionSubscribers), "update", msg),
                ws, Tail(regionSubscribers), msg)

RECURSIVE Broadcast(_, _, _)
Broadcast(acc, ws, changes) ==
    IF Len(changes) = 0 THEN acc
    ELSE LET change == Head(changes)
             regionSubscribers ==
                 IF change.region \in DOMAIN activeRegions
                 THEN activeRegions[change.region] ELSE <<>>
         IN  Broadcast(FanOut(acc, ws, regionSubscribers, NewUpdateMessage(change)),
                       ws, Tail(changes))

\* The regions a batch of updates names, in order.
NamedRegions(data) ==
    [i \in 1 .. Len(data.updates.items) |-> data.updates.items[i].region]

\* `last` keeps the regions a valid batch names, admitted or not, and nothing
\* of a request that fails the validation.
update(ws, data) ==
    /\ CanHandle(ws)
    /\ LET invalid == UpdateInvalid(data)
           error == IF invalid # "" THEN invalid ELSE NotAdmitted(ws, data)
           named == IF invalid # "" THEN <<>> ELSE NamedRegions(data)
       IN
       IF error # ""
       THEN RejectNaming("update", ws, error, named)
       ELSE LET done == Broadcast([cl |-> clients, out |-> NoneSent, tried |-> {}],
                                     ws, data.updates.items)
            IN  /\ clients' = done.cl
                /\ sent' = done.out
                /\ last' = [op |-> "update", ws |-> ws, ok |-> TRUE, regions |-> named]
                /\ called' = done.tried
                /\ UNCHANGED <<sockets, attachment, actor, activeRegions, storage>>

\* ------------------------------------------------------ inbound messages

\* A raw message is text that JSON.parse rejects (parses is FALSE) or the
\* value it parses to: null, or an object with some of the fields message,
\* data, type and payload.
Null == [null |-> TRUE]

\* A field value that is truthy and no mapping, and one that is falsy.
Something == [something |-> TRUE]

Falsy == [falsy |-> TRUE]

\* payload?.field
Get(payload, field) == IF field \in DOMAIN payload THEN payload[field] ELSE Undefined

Truthy(v) == v # Undefined /\ v # Falsy

\* payload.type as the dispatcher reads it: an absent type is in no list of
\* types and prints as "undefined".
TypeOf(payload) == IF "type" \in DOMAIN payload THEN payload.type ELSE "undefined"

\* deserializeMsg: requires payload.message and payload.data, returns
\* payload.type and payload.payload.
deserializeMsg(rawMessage) ==
    IF ~ rawMessage.parses THEN [throws |-> TRUE, type |-> "", data |-> Undefined]
    ELSE LET payload == rawMessage.value
         IN  IF ~ Truthy(Get(payload, "message")) \/ ~ Truthy(Get(payload, "data"))
             THEN [throws |-> TRUE, type |-> "", data |-> Undefined]
             ELSE [throws |-> FALSE, type |-> TypeOf(payload),
                   data |-> Get(payload, "payload")]

HandledTypes == {"subscribe", "unsubscribe", "update", "load"}

\* A dispatcher that drops a message of an unknown type without a word.
IgnoreUnknown(ws, type) == Throws("message", ws)

\* The answer of the dispatcher to a type it has no handler for.
RejectUnknown(ws, type) ==
    Reject("message", ws, "Unknown message type: " \o Quote(type))

handleMessage(ws, payload) ==
    /\ CanHandle(ws)
    /\ request' = payload
    /\ LET message == deserializeMsg(payload)
       IN
       IF message.throws THEN Reject("message", ws, "Unexpected message payload")
       ELSE IF message.type \notin HandledTypes
       THEN RejectUnknown(ws, message.type)
       ELSE IF message.type = "subscribe" THEN subscribe(ws, message.data)
       ELSE IF message.type = "unsubscribe" THEN unsubscribe(ws, message.data)
       ELSE IF message.type = "load" THEN load(ws, message.data)
       ELSE IF message.type = "update" THEN update(ws, message.data)
       ELSE Reject("message", ws, "Message type not supported")

\* webSocketMessage called for a message as it arrives.
webSocketMessage(ws, payload) == handleMessage(ws, payload) /\ QueueIdle

\* A message arrives on an open socket and waits for its turn.
arrive(ws, payload) ==
    /\ actor = "live"
    /\ sockets[ws] = "open"
    /\ arrivals < MaxArrivals
    /\ inbox' = Append(inbox, [ws |-> ws, payload |-> payload, seq |-> arrivals + 1])
    /\ arrivals' = arrivals + 1
    /\ UNCHANGED <<sockets, attachment, actor, clients, activeRegions, storage, sent,
                   last, request, called, delivered>>

\* A runtime that hands over the newest waiting message.
NewestWaiting(queue) == Len(queue)

\* The waiting message the runtime hands to webSocketMessage next: the
\* oldest.
OldestWaiting(queue) == 1

\* The runtime hands the next waiting message to webSocketMessage, which
\* runs to its end; every update envelope it sends is logged under the
\* message's arrival number.
deliver ==
    /\ inbox # <<>>
    /\ LET i == OldestWaiting(inbox)
           event == inbox[i]
       IN  /\ handleMessage(event.ws, event.payload)
           /\ inbox' = [j \in 1 .. (Len(inbox) - 1) |-> IF j < i THEN inbox[j] ELSE inbox[j + 1]]
           /\ delivered' =
                [c \in Conns |->
                    delivered[c] \o
                        [k \in 1 .. Len(SelectSeq(sent'[c], LAMBDA e : e.type = "update")) |->
                            event.seq]]
    /\ arrivals' = arrivals

\* The raw message from which the dispatcher hands `data` to the handler of
\* `type`.
Envelope(type, data) ==
    [parses |-> TRUE,
     value |-> [message |-> Something, data |-> Something, type |-> type, payload |-> data]]

\* The raw message of the documented shape {type, data}.
Documented(type, data) == [parses |-> TRUE, value |-> [type |-> type, data |-> data]]

\* Text that is no JSON, and the JSON text null.
NotJSON == [parses |-> FALSE, value |-> Null]

JSONNull == [parses |-> TRUE, value |-> Null]

\* fetch: the transport accepts a new socket; the room records nothing yet.
fetch(ws) ==
    /\ actor = "live"
    /\ sockets[ws] = "none"
    /\ \A c \in Conns : c < ws => sockets[c] # "none"
    /\ sockets' = [sockets EXCEPT ![ws] = "open"]
    /\ sent' = NoneSent
    /\ last' = [op |-> "fetch", ws |-> ws, ok |-> TRUE, regions |-> <<>>]
    /\ request' = NoRequest
    /\ called' = {}
    /\ UNCHANGED <<attachment, actor, clients, activeRegions, storage>>
    /\ QueueIdle

\* The peer of an open socket goes away; its close event is still to come.
Break(ws) ==
    /\ sockets[ws] = "open"
    /\ sockets' = [sockets EXCEPT ![ws] = "broken"]
    /\ sent' = NoneSent
    /\ last' = [op |-> "break", ws |-> ws, ok |-> TRUE, regions |-> <<>>]
    /\ request' = NoRequest
    /\ called' = {}
    /\ UNCHANGED <<attachment, actor, clients, activeRegions, storage>>
    /\ QueueIdle

\* The loop body of webSocketClose for one entry: websockets.splice(idx, 1)
\* returns the removed elements, and that array is stored as the entry.
CloseEntry(websockets, ws) ==
    IF IndexOf(websockets, ws) = 0 THEN websockets
    ELSE SubSeq(websockets, IndexOf(websockets, ws), IndexOf(websockets, ws))

\* The transport drops a closed socket together with its attachment.
webSocketClose(ws) ==
    /\ sockets[ws] \in {"open", "broken"}
    /\ sockets' = [sockets EXCEPT ![ws] = "closed"]
    /\ IF actor = "live"
       THEN /\ activeRegions' =
                 [r \in DOMAIN activeRegions |-> CloseEntry(activeRegions[r], ws)]
            /\ clients' = MapDelete(clients, ws)
       ELSE UNCHANGED <<activeRegions, clients>>
    /\ attachment' = MapDelete(attachment, ws)
    /\ sent' = NoneSent
    /\ last' = [op |-> "close", ws |-> ws, ok |-> actor = "live", regions |-> <<>>]
    /\ request' = NoRequest
    /\ called' = {}
    /\ UNCHANGED <<actor, storage>>
    /\ QueueIdle

\* webSocketError only logs.
webSocketError(ws) ==
    /\ actor = "live"
    /\ sockets[ws] \in {"open", "broken"}
    /\ sent' = NoneSent
    /\ last' = [op |-> "error", ws |-> ws, ok |-> TRUE, regions |-> <<>>]
    /\ request' = NoRequest
    /\ called' = {}
    /\ UNCHANGED <<sockets, attachment, actor, clients, activeRegions, storage>>
    /\ QueueIdle

\* String.prototype.trim over contents of blanks and marks.
RECURSIVE TrimStart(_)
TrimStart(str) ==
    IF Len(str) > 0 /\ Char(str, 1) = " " THEN TrimStart(SubSeq(str, 2, Len(str))) ELSE str

RECURSIVE TrimEnd(_)
TrimEnd(str) ==
    IF Len(str) > 0 /\ Char(str, Len(str)) = " "
    THEN TrimEnd(SubSeq(str, 1, Len(str) - 1)) ELSE str

\* A trim that removes nothing.
NoTrim(str) == str

Trim(str) == TrimEnd(TrimStart(str))

\* A length test that lets shorter contents pass.
TooLong(regionData) == Len(regionData) > REGION_WIDTH * REGION_HEIGHT

\* regionData.length !== REGION_WIDTH * REGION_HEIGHT
WrongLength(regionData) == Len(regionData) # REGION_WIDTH * REGION_HEIGHT

\* saveRegion (called by no handler): content that trims to nothing deletes
\* the key, content of another length than the region's throws, other content
\* is put. `request` keeps the arguments.
saveRegion(region, regionData) ==
    /\ actor = "live"
    /\ request' = [region |-> region, regionData |-> regionData]
    /\ IF Len(Trim(regionData)) = 0
       THEN /\ storage' = MapDelete(storage, region)
            /\ last' = [op |-> "save", ws |-> 0, ok |-> TRUE, regions |-> <<region>>]
       ELSE IF WrongLength(regionData)
       THEN /\ storage' = storage
            /\ last' = [op |-> "save", ws |-> 0, ok |-> FALSE, regions |-> <<region>>]
       ELSE /\ storage' = MapSet(storage, region, regionData)
            /\ last' = [op |-> "save", ws |-> 0, ok |-> TRUE, regions |-> <<region>>]
    /\ sent' = NoneSent
    /\ called' = {}
    /\ UNCHANGED <<sockets, attachment, actor, clients, activeRegions>>
    /\ QueueIdle

\* cleanupClient (never called by a handler).
cleanupClient(cl, ar, ws) ==
    [cl |-> MapDelete(cl, ws),
     ar |-> [r \in {k \in DOMAIN ar : Range(ar[k]) # {ws}} |->
                SelectSeq(ar[r], LAMBDA c : c # ws)]]

\* The constructor's loop body for one socket of getWebSockets(): a parse
\* that throws keeps the default state; a parse that yields null makes
\* clientState.subscribedRegions throw out of the constructor.
ReinstateOne(acc, ws) ==
    LET parsed == ParseAttachment(ws)
        clientState == IF parsed.throws THEN DefaultClientState ELSE parsed.state
    IN  IF acc.failed THEN acc
        ELSE IF ~ parsed.throws /\ parsed.isNull THEN [acc EXCEPT !.failed = TRUE]
        ELSE [cl |-> MapSet(acc.cl, ws, clientState),
              ar |-> addClientToRegions(acc.ar, ws, clientState.subscribedRegions),
              failed |-> FALSE]

RECURSIVE ReinstateFrom(_, _)
ReinstateFrom(acc, ws) ==
    IF ws > NumConns THEN acc
    ELSE ReinstateFrom(IF ws \in getWebSockets THEN ReinstateOne(acc, ws) ELSE acc, ws + 1)

\* The state the constructor builds from the open sockets' attachments.
Constructed == ReinstateFrom([cl |-> EmptyMap, ar |-> EmptyMap, failed |-> FALSE], 1)

\* The actor's memory is discarded and the constructor runs again.
constructor ==
    /\ LET built == Constructed
       IN  /\ actor' = IF built.failed THEN "failed" ELSE "live"
           /\ clients' = IF built.failed THEN EmptyMap ELSE built.cl
           /\ activeRegions' = IF built.failed THEN EmptyMap ELSE built.ar
           /\ last' = [op |-> "constructor", ws |-> 0, ok |-> ~ built.failed,
                       regions |-> <<>>]
    /\ sent' = NoneSent
    /\ request' = NoRequest
    /\ called' = {}
    /\ UNCHANGED <<sockets, attachment, storage>>
    /\ QueueIdle

\* ---------------------------------------------------------- specifications

\* The sockets that connect in the specifications of pairs, and the keys
\* named in the three-connection specification.
Pair == 1 .. PairConns

RoomKeys == {Key(i) : i \in 1 .. RoomRegions}

RoomRegionsData == RegionsDataOver(RoomKeys, MAX_ACTIVE_REGIONS)

RoomUpdatesData == UpdatesDataOver(RoomKeys)

\* The raw messages of each specification, by handler.
Messages(type, datas) == {Envelope(type, data) : data \in datas}

SubscribeMessages == Messages("subscribe", RegionsData)

UnsubscribeMessages == Messages("unsubscribe", RegionsData)

LoadMessages == Messages("load", RegionsData)

UpdateMessages == Messages("update", UpdatesData)

ShortSubscribeMessages == Messages("subscribe", ShortRegionsData)

ShortUnsubscribeMessages == Messages("unsubscribe", ShortRegionsData)

RoomSubscribeMessages == Messages("subscribe", RoomRegionsData)

RoomUnsubscribeMessages == Messages("unsubscribe", RoomRegionsData)

RoomUpdateMessages == Messages("update", RoomUpdatesData)

\* The characters of a region's content: a blank and a mark.
ContentChars == {" ", "x"}

RECURSIVE StringsOfLen(_)
StringsOfLen(n) ==
    IF n = 0 THEN {""}
    ELSE {str \o c : str \in StringsOfLen(n - 1), c \in ContentChars}

\* The contents saved: every content of the region's length, and contents one
\* character shorter and longer.
SaveContents ==
    StringsOfLen(REGION_WIDTH * REGION_HEIGHT)
        \cup StringsOfLen(REGION_WIDTH * REGION_HEIGHT - 1)
        \cup {str \o "x" : str \in StringsOfLen(REGION_WIDTH * REGION_HEIGHT)}

Init ==
    /\ sockets = [c \in Conns |-> "none"]
    /\ attachment = EmptyMap
    /\ actor = "live"
    /\ clients = EmptyMap
    /\ activeRegions = EmptyMap
    /\ storage = EmptyMap
    /\ sent = NoneSent
    /\ last = [op |-> "constructor", ws |-> 0, ok |-> TRUE, regions |-> <<>>]
    /\ request = NoRequest
    /\ called = {}
    /\ inbox = <<>>
    /\ arrivals = 0
    /\ delivered = [c \in Conns |-> <<>>]

Next ==
    \/ \E ws \in Conns : fetch(ws)
    \/ \E ws \in Conns, message \in SubscribeMessages : webSocketMessage(ws, message)
    \/ \E ws \in Conns, message \in UnsubscribeMessages : webSocketMessage(ws, message)
    \/ \E ws \in Conns, message \in LoadMessages : webSocketMessage(ws, message)
    \/ \E ws \in Conns, message \in UpdateMessages : webSocketMessage(ws, message)
    \/ \E ws \in Conns : Break(ws)
    \/ \E ws \in Conns : webSocketClose(ws)
    \/ \E ws \in Conns : webSocketError(ws)
    \/ constructor
    \/ \E region \in RoomKeys, regionData \in SaveContents : saveRegion(region, regionData)

Spec == Init /\ [][Next]_vars

\* A type no handler exists for.
UnknownType == "ping"

\* One well-formed data for each type of message.
WellFormedData(type) ==
    IF type = "update" THEN [updates |-> [isArray |-> TRUE, items |-> <<GoodUpdate(Key(1))>>]]
    ELSE [regions |-> [isArray |-> TRUE, items |-> <<Key(1)>>]]

\* Messages of the documented shape, one for each type.
DocumentedMessages ==
    {Documented(type, WellFormedData(type)) : type \in HandledTypes \cup {UnknownType}}

\* Messages of an unknown type or of none, which pass the decoder.
UnknownMessages ==
    {Envelope(UnknownType, WellFormedData(UnknownType)),
     [parses |-> TRUE,
      value |-> [message |-> Something, data |-> Something,
                 payload |-> WellFormedData("subscribe")]]}

\* Messages the decoder passes on with no payload field, one for each type.
BareMessages ==
    {[parses |-> TRUE, value |-> [message |-> Something, data |-> Something, type |-> type]] :
        type \in HandledTypes}

\* Messages the decoder rejects: no JSON, null, a falsy message field, a
\* falsy data field, no data field.
UndecodableMessages ==
    {NotJSON, JSONNull,
     [parses |-> TRUE,
      value |-> [message |-> Falsy, data |-> Something, type |-> "subscribe",
                 payload |-> WellFormedData("subscribe")]],
     [parses |-> TRUE,
      value |-> [message |-> Something, data |-> Falsy, type |-> "subscribe",
                 payload |-> WellFormedData("subscribe")]],
     [parses |-> TRUE,
      value |-> [message |-> Something, type |-> "subscribe",
                 payload |-> WellFormedData("subscribe")]]}

\* A subscribe whose list is one entry too long and ends with a malformed
\* key.
TooLongAndInvalid ==
    [regions |-> [isArray |-> TRUE,
                  items |-> [i \in 1 .. (MAX_ACTIVE_REGIONS + 1) |->
                                IF i <= MAX_ACTIVE_REGIONS THEN Key(1) ELSE BadKey]]]

EdgeSubscribeMessages == Messages("subscribe", {TooLongAndInvalid})

ShortLoadMessages == Messages("load", ShortRegionsData)

RoomLoadMessages == Messages("load", RoomRegionsData)

\* In the specifications of connections that connect in pairs the first
\* connection names every key and the others name the RoomRegions keys.
First == 1

Others == Pair \ {First}

\* Connections that only connect, subscribe and unsubscribe.
NextSub ==
    \/ \E ws \in Pair : fetch(ws)
    \/ \E message \in SubscribeMessages : webSocketMessage(First, message)
    \/ \E message \in ShortUnsubscribeMessages : webSocketMessage(First, message)
    \/ \E ws \in Others, message \in RoomSubscribeMessages : webSocketMessage(ws, message)
    \/ \E ws \in Others, message \in RoomUnsubscribeMessages : webSocketMessage(ws, message)

SpecSub == Init /\ [][NextSub]_vars

\* Connections that connect, subscribe, unsubscribe and update.
NextUpdate ==
    \/ \E ws \in Pair : fetch(ws)
    \/ \E message \in ShortSubscribeMessages : webSocketMessage(First, message)
    \/ \E message \in ShortUnsubscribeMessages : webSocketMessage(First, message)
    \/ \E message \in UpdateMessages : webSocketMessage(First, message)
    \/ \E ws \in Others, message \in RoomSubscribeMessages : webSocketMessage(ws, message)
    \/ \E ws \in Others, message \in RoomUnsubscribeMessages : webSocketMessage(ws, message)
    \/ \E ws \in Others, message \in RoomUpdateMessages : webSocketMessage(ws, message)

SpecUpdate == Init /\ [][NextUpdate]_vars

\* Connections that connect, subscribe and unsubscribe, and an actor that is
\* torn down and constructed again at any moment.
NextRevive ==
    \/ \E ws \in Pair : fetch(ws)
    \/ \E message \in ShortSubscribeMessages : webSocketMessage(First, message)
    \/ \E message \in ShortUnsubscribeMessages : webSocketMessage(First, message)
    \/ \E ws \in Others, message \in RoomSubscribeMessages : webSocketMessage(ws, message)
    \/ \E ws \in Others, message \in RoomUnsubscribeMessages : webSocketMessage(ws, message)
    \/ constructor

SpecRevive == Init /\ [][NextRevive]_vars

\* Connections that connect and send every kind of raw message.
NextMsg ==
    \/ \E ws \in Pair : fetch(ws)
    \/ \E message \in ShortSubscribeMessages : webSocketMessage(First, message)
    \/ \E message \in EdgeSubscribeMessages : webSocketMessage(First, message)
    \/ \E message \in ShortUnsubscribeMessages : webSocketMessage(First, message)
    \/ \E message \in ShortLoadMessages : webSocketMessage(First, message)
    \/ \E message \in RoomUpdateMessages : webSocketMessage(First, message)
    \/ \E message \in DocumentedMessages : webSocketMessage(First, message)
    \/ \E message \in UnknownMessages : webSocketMessage(First, message)
    \/ \E message \in BareMessages : webSocketMessage(First, message)
    \/ \E message \in UndecodableMessages : webSocketMessage(First, message)
    \/ \E ws \in Others, message \in RoomSubscribeMessages : webSocketMessage(ws, message)
    \/ \E ws \in Others, message \in RoomUnsubscribeMessages : webSocketMessage(ws, message)
    \/ \E ws \in Others, message \in RoomLoadMessages : webSocketMessage(ws, message)
    \/ \E ws \in Others, message \in RoomUpdateMessages : webSocketMessage(ws, message)

SpecMsg == Init /\ [][NextMsg]_vars

\* Three connections that connect, subscribe, unsubscribe, update and close,
\* naming RoomRegions keys.
NextRoom ==
    \/ \E ws \in Conns : fetch(ws)
    \/ \E ws \in Conns, message \in RoomSubscribeMessages : webSocketMessage(ws, message)
    \/ \E ws \in Conns, message \in RoomUnsubscribeMessages : webSocketMessage(ws, message)
    \/ \E ws \in Conns, message \in RoomUpdateMessages : webSocketMessage(ws, message)
    \/ \E ws \in Conns : webSocketClose(ws)

SpecRoom == Init /\ [][NextRoom]_vars

\* Three connections that connect, subscribe and update, naming RoomRegions
\* keys, and whose peers may go away without a close event.
NextFail ==
    \/ \E ws \in Conns : fetch(ws)
    \/ \E ws \in Conns, message \in RoomSubscribeMessages : webSocketMessage(ws, message)
    \/ \E ws \in Conns, message \in RoomUpdateMessages : webSocketMessage(ws, message)
    \/ \E ws \in Conns : Break(ws)

SpecFail == Init /\ [][NextFail]_vars

\* A call of isValidRegion: `request` keeps the argument, `last` the result.
callIsValidRegion(regionString) ==
    /\ actor = "live"
    /\ request' = [regionString |-> regionString]
    /\ last' = [op |-> "isValidRegion", ws |-> 0, ok |-> isValidRegion(regionString),
                regions |-> <<>>]
    /\ sent' = NoneSent
    /\ called' = {}
    /\ UNCHANGED <<sockets, attachment, actor, clients, activeRegions, storage>>
    /\ QueueIdle

\* The characters of the enumerated strings: digits, the point, the
\* separator and a letter.
KeyChars == {"3", "4", "5", ".", "-", "a"}

RECURSIVE KeyStringsOfLen(_)
KeyStringsOfLen(n) ==
    IF n = 0 THEN {""}
    ELSE {str \o c : str \in KeyStringsOfLen(n - 1), c \in KeyChars}

\* The keys of a negative column, of a negative row and of both.
SignedKeyStrings == {"-3-4", "3--4", "-3--4"}

\* Every string of at most MaxKeyLen characters, a key with a fraction and
\* the keys with a negative coordinate.
KeyStrings ==
    UNION {KeyStringsOfLen(n) : n \in 0 .. MaxKeyLen} \cup {"3.5-4"} \cup SignedKeyStrings

\* isValidRegion applied to every enumerated string.
NextKey == \E regionString \in KeyStrings : callIsValidRegion(regionString)

SpecKey == Init /\ [][NextKey]_vars

\* The messages that arrive in the specification of arrival order: a
\* subscribe to one region, updates of one and of two changes to it, and an
\* update the validation rejects.
OrderMessages ==
    {Envelope("subscribe", [regions |-> [isArray |-> TRUE, items |-> <<Key(1)>>]]),
     Envelope("update", [updates |-> [isArray |-> TRUE, items |-> <<GoodUpdate(Key(1))>>]]),
     Envelope("update", [updates |-> [isArray |-> TRUE,
                                      items |-> <<GoodUpdate(Key(1)), GoodUpdate(Key(1))>>]]),
     Envelope("update", [updates |-> [isArray |-> TRUE, items |-> <<>>]])}

\* Two connections whose messages wait in the runtime's queue until they are
\* handed to webSocketMessage.
NextOrder ==
    \/ \E ws \in Pair : fetch(ws)
    \/ \E ws \in Pair, message \in OrderMessages : arrive(ws, message)
    \/ deliver

SpecOrder == Init /\ [][NextOrder]_vars

\* Two connections that connect, subscribe and unsubscribe, naming RoomRegions
\* keys, and on which the transport reports errors.
NextError ==
    \/ \E ws \in Pair : fetch(ws)
    \/ \E ws \in Pair, message \in RoomSubscribeMessages : webSocketMessage(ws, message)
    \/ \E ws \in Pair, message \in RoomUnsubscribeMessages : webSocketMessage(ws, message)
    \/ \E ws \in Pair : webSocketError(ws)

SpecError == Init /\ [][NextError]_vars

\* Two connections that load RoomRegions keys while contents are saved.
NextStore ==
    \/ \E ws \in Pair : fetch(ws)
    \/ \E ws \in Pair, message \in RoomLoadMessages : webSocketMessage(ws, message)
    \/ \E region \in RoomKeys, regionData \in SaveContents : saveRegion(region, regionData)

SpecStore == Init /\ [][NextStore]_vars

\* Two connections that subscribe while contents are saved.
NextPush ==
    \/ \E ws \in Pair : fetch(ws)
    \/ \E message \in ShortSubscribeMessages : webSocketMessage(First, message)
    \/ \E ws \in Others, message \in RoomSubscribeMessages : webSocketMessage(ws, message)
    \/ \E region \in RoomKeys, regionData \in SaveContents : saveRegion(region, regionData)

SpecPush == Init /\ [][NextPush]_vars

\* The stored values sendRegions does not expect: strings of another length
\* than the region's.
UnexpectedContents == {str \in SaveContents : WrongLength(str)}

\* The store comes to hold a value that saveRegion did not put: the state
\* sendRegions tests what it reads for.
storedUnexpected(region, data) ==
    /\ actor = "live"
    /\ storage' = MapSet(storage, region, data)
    /\ request' = [region |-> region, regionData |-> data]
    /\ last' = [op |-> "stored", ws |-> 0, ok |-> TRUE, regions |-> <<region>>]
    /\ sent' = NoneSent
    /\ called' = {}
    /\ UNCHANGED <<sockets, attachment, actor, clients, activeRegions>>
    /\ QueueIdle

\* Two connections that load and subscribe to keys whose stored values were
\* saved or are of an unexpected length.
NextRead ==
    \/ \E ws \in Pair : fetch(ws)
    \/ \E message \in LoadMessages : webSocketMessage(First, message)
    \/ \E ws \in Others, message \in RoomSubscribeMessages : webSocketMessage(ws, message)
    \/ \E region \in RoomKeys, regionData \in SaveContents : saveRegion(region, regionData)
    \/ \E region \in ValidKeys, data \in UnexpectedContents : storedUnexpected(region, data)

SpecRead == Init /\ [][NextRead]_vars

\* ------------------------------------------------------------- properties

\* The stored subscribedRegions of connection c in the clients map cl.
SubsIn(cl, c) == IF c \in DOMAIN cl THEN cl[c].subscribedRegions ELSE <<>>

Subs(c) == SubsIn(clients, c)

\* Whether connection c is listed in the Index entry of region r of ar.
InIndexOf(ar, c, r) == r \in DOMAIN ar /\ Includes(ar[r], c)

InIndex(c, r) == InIndexOf(activeRegions, c, r)

\* The Index as region -> set of connections.
IndexSets(ar) == [r \in DOMAIN ar |-> Range(ar[r])]

\* The distinct elements of arr in order of first occurrence.
Distinct(arr) ==
    LET firsts == {i \in 1 .. Len(arr) : \A j \in 1 .. (i - 1) : arr[j] # arr[i]}
        nth(n) == CHOOSE i \in firsts : Cardinality({j \in firsts : j < i}) = n - 1
    IN  [n \in 1 .. Cardinality(firsts) |-> arr[nth(n)]]

\* The envelopes of a given type among those sent to c by the last handler.
SentOfType(c, type) == SelectSeq(sent[c], LAMBDA e : e.type = type)

AcceptedSubscribe(l) == l.op = "subscribe" /\ l.ok

\* C1: after every subscribe or unsubscribe command, connection c is in the
\* Index entry of region r exactly when r is in c's stored subscribedRegions.
C1_BidirectionalConsistency ==
    \A c \in Conns, r \in ValidKeys : InIndex(c, r) <=> Includes(Subs(c), r)

\* C2: after every subscribe or unsubscribe command, a connection's stored
\* subscribedRegions has at most MAX_ACTIVE_REGIONS entries.
C2_CapacityBound == \A c \in Conns : Len(Subs(c)) <= MAX_ACTIVE_REGIONS

\* C3: after every subscribe or unsubscribe command, no region appears twice
\* in a connection's stored subscribedRegions.
C3_NoDuplicates == \A c \in Conns : NoDuplicates(Subs(c))

\* An accepted subscribe whose request repeated a region left at least two
\* regions stored.
C3_Witness ==
    /\ AcceptedSubscribe(last)
    /\ ~ NoDuplicates(last.regions)
    /\ Len(Subs(last.ws)) >= 2

\* C4: an accepted subscribe with total distinct regions (current
\* subscriptions followed by the request) above MAX_ACTIVE_REGIONS removes
\* exactly the total - MAX_ACTIVE_REGIONS oldest regions from the
\* connection's subscriptions and from the Index and reports exactly those
\* as unsubscribedRegions; otherwise it evicts and reports nothing.
C4_Eviction ==
    [][AcceptedSubscribe(last') =>
        LET ws == last'.ws
            ordered == Distinct(Subs(ws) \o last'.regions)
            total == Len(ordered)
            over == Max(0, total - MAX_ACTIVE_REGIONS)
            oldest == SubSeq(ordered, 1, over)
            kept == SubSeq(ordered, over + 1, total)
            reply == sent'[ws][1]
        IN  /\ reply.type = "subscriptions"
            /\ reply.data.unsubscribedRegions = oldest
            /\ \A r \in Range(oldest) :
                 ~ Includes(SubsIn(clients', ws), r) /\ ~ InIndexOf(activeRegions', ws, r)
            /\ \A r \in Range(kept) :
                 Includes(SubsIn(clients', ws), r) /\ InIndexOf(activeRegions', ws, r)]_vars

\* C5: an accepted subscribe leaves the previously stored regions where
\* they were and appends the regions not stored before, once each, in
\* request order; a request naming only stored regions changes nothing.
C5_IdempotentResubscribe ==
    [][AcceptedSubscribe(last') =>
        LET before == Subs(last'.ws)
            after == SubsIn(clients', last'.ws)
            fresh == SelectSeq(last'.regions, LAMBDA r : ~ Includes(before, r))
        IN  /\ Len(after) >= Len(before)
            /\ SubSeq(after, 1, Len(before)) = before
            /\ SubSeq(after, Len(before) + 1, Len(after)) = Distinct(fresh)
            /\ (Range(last'.regions) \subseteq Range(before) => after = before)]_vars

\* An accepted subscribe named a region that is stored ahead of a region the
\* request did not name: it was subscribed before, and stayed in place.
C5_Witness ==
    /\ AcceptedSubscribe(last)
    /\ \E i, j \in 1 .. Len(Subs(last.ws)) :
         /\ i < j
         /\ Includes(last.regions, Subs(last.ws)[i])
         /\ ~ Includes(last.regions, Subs(last.ws)[j])

\* C6: an update batch naming a region the sender is not currently
\* subscribed to (it is not in that region's Index entry: never subscribed,
\* unsubscribed or evicted) is rejected as a whole: one error envelope to the
\* sender and no update envelope to anyone.
C6_AllOrNothing ==
    (/\ last.op = "update"
     /\ \E i \in 1 .. Len(last.regions) : ~ InIndex(last.ws, last.regions[i]))
        => /\ ~ last.ok
           /\ Len(SentOfType(last.ws, "error")) = 1
           /\ \A c \in Conns : SentOfType(c, "update") = <<>>

\* The update envelope of the well-formed edit of region r.
UpdateEnvelope(r) ==
    [id |-> RoomId, name |-> RoomName, type |-> "update",
     data |-> [region |-> r, position |-> [x |-> Num(0, 0), y |-> Num(0, 0)], value |-> "x"]]

\* C7: when an update is admitted, every other open connection is sent
\* exactly one update envelope for each update of the batch that names a
\* region of its subscribedRegions, and no other update envelope.
C7_FanOutDelivery ==
    (last.op = "update" /\ last.ok) =>
        \A b \in Conns \ {last.ws} :
            sockets[b] = "open" =>
                SentOfType(b, "update") =
                    LET mine == SelectSeq(last.regions, LAMBDA r : Includes(Subs(b), r))
                    IN  [i \in 1 .. Len(mine) |-> UpdateEnvelope(mine[i])]

\* C8: the sender of an update is never sent an update envelope for it.
C8_NoEcho == last.op = "update" => SentOfType(last.ws, "update") = <<>>

\* An admitted update on a region whose Index entry lists the sender reached
\* another connection.
C8_Witness ==
    /\ last.op = "update"
    /\ last.ok
    /\ \E i \in 1 .. Len(last.regions) : InIndex(last.ws, last.regions[i])
    /\ \E b \in Conns \ {last.ws} : SentOfType(b, "update") # <<>>

\* C9: after the close of connection A is handled, A is in no Index entry
\* and has no record in clients, and a region of which A was the only
\* subscriber has no Index entry.
C9_ClosePurge ==
    [][last'.op = "close" =>
        /\ last'.ws \notin DOMAIN clients'
        /\ \A r \in ValidKeys :
             /\ ~ InIndexOf(activeRegions', last'.ws, r)
             /\ (r \in DOMAIN activeRegions /\ Range(activeRegions[r]) = {last'.ws})
                    => r \notin DOMAIN activeRegions']_vars

\* C10: constructing the actor again from the attachments of the open
\* connections, each of which has a record, yields the Index and the
\* per-connection subscribedRegions held just before.
C10_RevivalRoundTrip ==
    [][(/\ last'.op = "constructor"
        /\ last'.ok
        /\ actor = "live"
        /\ \A c \in getWebSockets : c \in DOMAIN clients) =>
            /\ IndexSets(activeRegions') = IndexSets(activeRegions)
            /\ \A c \in getWebSockets : SubsIn(clients', c) = Subs(c)]_vars

\* The subscriptions an attachment is to give back on activation: the parsed
\* list, or none when the attachment is missing or does not parse.
Recovered(c) ==
    LET parsed == ParseAttachment(c)
    IN  IF parsed.throws \/ parsed.isNull THEN <<>> ELSE parsed.state.subscribedRegions

\* C11: activation completes whatever the attachments are, and reinstates
\* every open connection: with an empty subscription list when its
\* attachment is missing or does not parse to a subscribedRegions list, with
\* the list of its attachment otherwise.
C11_RevivalToleratesBadAttachments ==
    [][last'.op = "constructor" =>
        /\ last'.ok
        /\ actor' = "live"
        /\ \A c \in getWebSockets :
             /\ c \in DOMAIN clients'
             /\ SubsIn(clients', c) = Recovered(c)]_vars

\* C12: an admitted update calls send on no connection whose close has been
\* handled.
C12_NoFutureBroadcast ==
    (last.op = "update" /\ last.ok) =>
        \A a \in Conns : sockets[a] = "closed" => a \notin called

\* The data the dispatcher hands to the handler for the raw message req.
HandlerData(req) == deserializeMsg(req).data

\* The last step was a command that its handler's validation rejected: the
\* handler ran on a defined data (update also tests an undefined one) and did
\* not accept it.
RejectedCommand(l, req) ==
    /\ l.op \in HandledTypes
    /\ ~ l.ok
    /\ (l.op = "update" \/ HandlerData(req) # Undefined)

\* C13: a subscribe, unsubscribe, load or update command rejected by
\* validation sends exactly one error envelope to the offending connection
\* and nothing to any other, calls send on nobody else, leaves every socket
\* open, and leaves clients, the Index and the attachments unchanged.
C13_ErrorsLeaveState ==
    [][RejectedCommand(last', request') =>
        /\ Len(sent'[last'.ws]) = 1
        /\ sent'[last'.ws][1].type = "error"
        /\ \A c \in Conns \ {last'.ws} : sent'[c] = <<>>
        /\ called' = {last'.ws}
        /\ sockets' = sockets
        /\ clients' = clients
        /\ activeRegions' = activeRegions
        /\ attachment' = attachment]_vars

\* An update was rejected because its sender is not subscribed to the region
\* it names, while the sender has a record and another connection is in that
\* region's Index entry.
C13_Witness ==
    /\ RejectedCommand(last, request)
    /\ last.op = "update"
    /\ last.regions # <<>>
    /\ last.ws \in DOMAIN clients
    /\ \E c \in Conns \ {last.ws} : InIndex(c, last.regions[1])

\* The class of a subscribe request by its data: the first of the four
\* rejections that applies, or "Accepted".
SubscribeClass(data) ==
    IF "regions" \notin DOMAIN data THEN "MalformedRequest"
    ELSE IF ~ data.regions.isArray THEN "MalformedRequest"
    ELSE IF data.regions.items = <<>> THEN "EmptyRequest"
    ELSE IF Len(data.regions.items) > MAX_ACTIVE_REGIONS THEN "TooManyRegions"
    ELSE IF ~ (Range(data.regions.items) \subseteq ValidRegionKeys) THEN "InvalidRegion"
    ELSE "Accepted"

\* The error text subscribe sends for each class of rejection.
SubscribeErrorText ==
    [MalformedRequest |-> "Subscribe request is malformed",
     EmptyRequest |-> "Specify at least 1 region to subscribe to",
     TooManyRegions |-> "Cannot subscribe to more than MAX_ACTIVE_REGIONS regions",
     InvalidRegion |-> "One or more region keys is invalid"]

\* C14: a subscribe request is accepted exactly when it is in none of the
\* four classes of rejection, and is otherwise answered with the error of the
\* first class, in the order malformed, empty, too many, invalid key.
C14_SubscribeClassification ==
    (last.op = "subscribe" /\ HandlerData(request) # Undefined) =>
        LET class == SubscribeClass(HandlerData(request))
        IN  IF class = "Accepted" THEN last.ok
            ELSE /\ ~ last.ok
                 /\ sent[last.ws] =
                      <<serializeMsg("error", [error |-> SubscribeErrorText[class]])>>

\* A subscribe whose list is too long and also holds an invalid key was
\* rejected.
C14_Witness ==
    /\ last.op = "subscribe"
    /\ ~ last.ok
    /\ HandlerData(request) = TooLongAndInvalid

\* C15: when a send of an admitted update's fan-out throws, every other
\* open connection of the Index entries the update names is still sent its
\* update envelopes, the sender is sent nothing, and the only change of state
\* is that the recipients whose send threw have no record in clients.
C15_DeliveryFailureIsolation ==
    [][(last'.op = "update" /\ last'.ok /\ \E c \in called' : SendThrows(c)) =>
        /\ \A b \in Conns \ {last'.ws} :
              sockets[b] = "open" =>
                  sent'[b] =
                      LET mine == SelectSeq(last'.regions, LAMBDA r : InIndex(b, r))
                      IN  [i \in 1 .. Len(mine) |-> UpdateEnvelope(mine[i])]
        /\ sent'[last'.ws] = <<>>
        /\ DOMAIN clients' = DOMAIN clients \ {c \in called' : SendThrows(c)}
        /\ \A c \in DOMAIN clients' : clients'[c] = clients[c]
        /\ sockets' = sockets
        /\ activeRegions' = activeRegions
        /\ attachment' = attachment
        /\ storage' = storage]_vars

\* An admitted update reached an open connection that stands, in the Index
\* entry, behind a connection whose send threw and whose record is gone.
C15_Witness ==
    /\ last.op = "update"
    /\ last.ok
    /\ \E r \in DOMAIN activeRegions : \E c, b \in called :
          /\ SendThrows(c)
          /\ c \notin DOMAIN clients
          /\ ~ SendThrows(b)
          /\ IndexOf(activeRegions[r], c) < IndexOf(activeRegions[r], b)
          /\ IndexOf(activeRegions[r], c) > 0
          /\ SentOfType(b, "update") # <<>>

\* C16: a load, accepted or rejected, leaves every connection's record, the
\* Index and every attachment as they were, and sends to no connection but
\* the requester.
C16_LoadIsOneShot ==
    [][last'.op = "load" =>
        /\ clients' = clients
        /\ activeRegions' = activeRegions
        /\ attachment' = attachment
        /\ called' \subseteq {last'.ws}
        /\ \A c \in Conns \ {last'.ws} : sent'[c] = <<>>]_vars

\* An accepted load of a region the requester is not subscribed to was
\* answered with the region data.
C16_Witness ==
    /\ last.op = "load"
    /\ last.ok
    /\ \E i \in 1 .. Len(last.regions) : ~ Includes(Subs(last.ws), last.regions[i])
    /\ SentOfType(last.ws, "regionData") # <<>>

\* Whether a field value is a mapping.
IsMapping(v) == v \notin {Undefined, Null, Something, Falsy}

\* Whether a raw message parses to a structure with a type among the four
\* handled ones and a mapping field data.
IsDocumented(req) ==
    /\ req.parses
    /\ TypeOf(req.value) \in HandledTypes
    /\ IsMapping(Get(req.value, "data"))

\* C17: a raw message that parses to a structure with a handled type and a
\* mapping field data invokes the handler of that type with exactly that
\* data; any other message is answered with an error envelope and runs no
\* handler.
C17_DecodeAndDispatch ==
    request # NoRequest =>
        IF IsDocumented(request)
        THEN /\ last.op = request.value.type
             /\ HandlerData(request) = request.value.data
        ELSE /\ last.op = "message"
             /\ ~ last.ok
             /\ Len(sent[last.ws]) = 1
             /\ sent[last.ws][1].type = "error"

\* Whether a raw message parses and carries a type that is none of the four
\* handled ones, or no type.
HasUnknownType(req) ==
    /\ req # NoRequest
    /\ req.parses
    /\ TypeOf(req.value) \notin {"subscribe", "unsubscribe", "update", "load"}

\* C18: a message whose type is none of subscribe, unsubscribe, update and
\* load is answered with one error envelope to its sender and to nobody
\* else, runs no handler, changes no state of the actor, and leaves the actor
\* and the sender's socket able to handle the next message.
C18_UnknownTypeRejected ==
    [][HasUnknownType(request') =>
        /\ last'.op = "message"
        /\ ~ last'.ok
        /\ Len(sent'[last'.ws]) = 1
        /\ sent'[last'.ws][1].type = "error"
        /\ \A c \in Conns \ {last'.ws} : sent'[c] = <<>>
        /\ clients' = clients
        /\ activeRegions' = activeRegions
        /\ attachment' = attachment
        /\ storage' = storage
        /\ sockets' = sockets
        /\ actor' = "live"
        /\ sockets'[last'.ws] = "open"]_vars

\* A message of an unknown type passed the decoder and was answered by the
\* dispatcher while its sender held subscriptions.
C18_Witness ==
    /\ HasUnknownType(request)
    /\ ~ deserializeMsg(request).throws
    /\ TypeOf(request.value) = UnknownType
    /\ sent[last.ws] =
         <<serializeMsg("error",
               [error |-> "Unknown message type: " \o Quote(UnknownType)])>>
    /\ Subs(last.ws) # <<>>

\* C19: after an accepted subscribe or unsubscribe the attachment of the
\* connection parses to exactly its stored subscribedRegions, in the same
\* order, and the other attachments are as before; a rejected command writes
\* no attachment.
C19_AttachmentTracksSubscriptions ==
    [][/\ (last'.op \in {"subscribe", "unsubscribe"} /\ last'.ok) =>
            /\ last'.ws \in DOMAIN attachment'
            /\ ParsesAsClientState(attachment'[last'.ws])
            /\ ParseItems(attachment'[last'.ws]) = SubsIn(clients', last'.ws)
            /\ \A c \in Conns \ {last'.ws} :
                  /\ c \in DOMAIN attachment' <=> c \in DOMAIN attachment
                  /\ c \in DOMAIN attachment => attachment'[c] = attachment[c]
       /\ (last'.op \in HandledTypes \cup {"message"} /\ ~ last'.ok) =>
            attachment' = attachment]_vars

\* An accepted unsubscribe left its connection with a subscription, and the
\* attachment holds that list.
C19_Witness ==
    /\ last.op = "unsubscribe"
    /\ last.ok
    /\ Subs(last.ws) # <<>>
    /\ last.ws \in DOMAIN attachment
    /\ ParseItems(attachment[last.ws]) = Subs(last.ws)

IsBlank(str) == \A i \in 1 .. Len(str) : Char(str, i) = " "

\* C21: a save of a content that is empty after trimming leaves the store
\* without the region's key, whatever was stored, and a load that follows and
\* names the region reports no content for it.
C21_EmptySaveDeletes ==
    [][/\ (last'.op = "save" /\ IsBlank(request'.regionData)) =>
            /\ last'.ok
            /\ DOMAIN storage' = DOMAIN storage \ {request'.region}
            /\ \A r \in DOMAIN storage' : storage'[r] = storage[r]
       /\ (/\ last.op = "save"
           /\ IsBlank(request.regionData)
           /\ last'.op = "load"
           /\ last'.ok
           /\ Includes(last'.regions, request.region)) =>
               LET reply == sent'[last'.ws][1].data.regions
               IN  request.region \in DOMAIN reply => reply[request.region].isNull]_vars

\* A content of blanks, not the empty string, was saved and the store holds
\* nothing for its region.
C21_Witness ==
    /\ last.op = "save"
    /\ last.ok
    /\ IsBlank(request.regionData)
    /\ Len(request.regionData) > 0
    /\ request.region \notin DOMAIN storage

\* C22: every stored value has exactly REGION_WIDTH * REGION_HEIGHT
\* characters, and a save of a content that is not blank and has another
\* length fails and leaves the store as it was.
C22_PersistedSize ==
    [][/\ \A r \in DOMAIN storage' : Len(storage'[r]) = REGION_WIDTH * REGION_HEIGHT
       /\ (/\ last'.op = "save"
           /\ ~ IsBlank(request'.regionData)
           /\ Len(request'.regionData) # REGION_WIDTH * REGION_HEIGHT) =>
               /\ ~ last'.ok
               /\ storage' = storage]_vars

\* A save of a shorter content that is not blank failed while the store held
\* a value.
C22_Witness ==
    /\ last.op = "save"
    /\ ~ last.ok
    /\ Len(request.regionData) < REGION_WIDTH * REGION_HEIGHT
    /\ DOMAIN storage # {}

\* Whether a substring is a numeral: it holds a digit, and nothing but digits
\* and at most one point.
IsNumeral(part) == part # "" /\ ~ IsNaNStr(part)

\* Whether a string splits on "-" into exactly two numerals without a
\* fractional part.
ParsesAsRegionKey(str) ==
    LET parts == Split(str, "-")
    IN  /\ Len(parts) = 2
        /\ IsNumeral(parts[1]) /\ IsNumeral(parts[2])
        /\ ~ HasFraction(parts[1]) /\ ~ HasFraction(parts[2])

\* C23: isValidRegion accepts a string exactly when it splits on "-" into
\* exactly two substrings that are both numbers and both integral.
C23_RegionKeyValidation ==
    last.op = "isValidRegion" => (last.ok <=> ParsesAsRegionKey(request.regionString))

C25_RevivalRestoresInvariant ==
    last.op = "constructor" =>
        /\ DOMAIN clients = getWebSockets
        /\ \A c \in getWebSockets : \A r \in ValidKeys \cup DOMAIN activeRegions :
              InIndex(c, r) <=> Includes(Subs(c), r)

\* The data of the subscriptions reply sent to connection c by the last
\* handler.
SubscriptionsReply(c) == SentOfType(c, "subscriptions")[1].data

\* C26: after an accepted subscribe the subscribedRegions of the reply is
\* the connection's stored subscribedRegions, in the same order, and no
\* region of the reply's unsubscribedRegions is in the stored list.
C26_ReplyMatchesState ==
    AcceptedSubscribe(last) =>
        /\ SubscriptionsReply(last.ws).subscribedRegions = Subs(last.ws)
        /\ \A i \in 1 .. Len(SubscriptionsReply(last.ws).unsubscribedRegions) :
              ~ Includes(Subs(last.ws), SubscriptionsReply(last.ws).unsubscribedRegions[i])

\* C27: after an accepted subscribe, every requested region in whose Index
\* entry the connection was not listed just before, a region it was evicted
\* from earlier included, is in the reply's subscribedRegions, and the
\* connection is in that region's Index entry.
C27_RequestedGetSubscribed ==
    [][AcceptedSubscribe(last') =>
        \A i \in 1 .. Len(last'.regions) :
            ~ InIndex(last'.ws, last'.regions[i]) =>
                /\ Includes(sent'[last'.ws][1].data.subscribedRegions, last'.regions[i])
                /\ InIndexOf(activeRegions', last'.ws, last'.regions[i])]_vars

\* C28: an accepted unsubscribe leaves the connection's subscribedRegions as
\* the previous list without the named regions, the rest in the same order;
\* the connection is in the Index entry of no named region; a named region's
\* entry that held the connection alone is gone and no entry is empty; the
\* connection's membership in other entries, and every other connection's
\* record and Index membership, are as before.
C28_UnsubscribeEffect ==
    [][(last'.op = "unsubscribe" /\ last'.ok) =>
        /\ SubsIn(clients', last'.ws) =
              SelectSeq(Subs(last'.ws), LAMBDA r : ~ Includes(last'.regions, r))
        /\ \A i \in 1 .. Len(last'.regions) :
              /\ ~ InIndexOf(activeRegions', last'.ws, last'.regions[i])
              /\ (/\ last'.regions[i] \in DOMAIN activeRegions
                  /\ Range(activeRegions[last'.regions[i]]) = {last'.ws})
                     => last'.regions[i] \notin DOMAIN activeRegions'
        /\ \A r \in DOMAIN activeRegions' : activeRegions'[r] # <<>>
        /\ \A r \in (DOMAIN activeRegions \cup DOMAIN activeRegions') \ Range(last'.regions) :
              InIndexOf(activeRegions', last'.ws, r) <=> InIndex(last'.ws, r)
        /\ \A c \in Conns \ {last'.ws} :
              /\ c \in DOMAIN clients' <=> c \in DOMAIN clients
              /\ SubsIn(clients', c) = Subs(c)
              /\ \A r \in DOMAIN activeRegions \cup DOMAIN activeRegions' :
                    InIndexOf(activeRegions', c, r) <=> InIndex(c, r)]_vars

\* An accepted unsubscribe named a region that now has no Index entry and
\* left its connection with a subscription, while another connection is
\* listed in the Index.
C28_Witness ==
    /\ last.op = "unsubscribe"
    /\ last.ok
    /\ \E i \in 1 .. Len(last.regions) : last.regions[i] \notin DOMAIN activeRegions
    /\ Subs(last.ws) # <<>>
    /\ \E c \in Conns \ {last.ws} : \E r \in DOMAIN activeRegions : InIndex(c, r)

\* The class of an unsubscribe request by its data: the validation of
\* subscribe without the size cap.
UnsubscribeClass(data) ==
    IF "regions" \notin DOMAIN data THEN "MalformedRequest"
    ELSE IF ~ data.regions.isArray THEN "MalformedRequest"
    ELSE IF data.regions.items = <<>> THEN "EmptyRequest"
    ELSE IF ~ (Range(data.regions.items) \subseteq ValidRegionKeys) THEN "InvalidRegion"
    ELSE "Accepted"

\* C29: an unsubscribe whose regions is missing or no list, is empty, or
\* holds an invalid key is answered with one error envelope and is not
\* accepted; any other unsubscribe is accepted.
C29_UnsubscribeValidation ==
    (last.op = "unsubscribe" /\ HandlerData(request) # Undefined) =>
        IF UnsubscribeClass(HandlerData(request)) = "Accepted" THEN last.ok
        ELSE /\ ~ last.ok
             /\ Len(sent[last.ws]) = 1
             /\ sent[last.ws][1].type = "error"

\* C30: the close of a connection leaves every other connection's
\* subscribedRegions and its membership in every Index entry as they were.
C30_CloseLeavesOthers ==
    [][last'.op = "close" =>
        \A b \in Conns \ {last'.ws} :
            /\ SubsIn(clients', b) = Subs(b)
            /\ \A r \in DOMAIN activeRegions \cup DOMAIN activeRegions' :
                  InIndexOf(activeRegions', b, r) <=> InIndex(b, r)]_vars

\* C31: every connection listed in an Index entry is one the transport still
\* reports and has a record in clients.
C31_IndexHoldsLiveConnections ==
    \A r \in DOMAIN activeRegions : \A c \in Range(activeRegions[r]) :
        /\ c \in getWebSockets
        /\ c \in DOMAIN clients

\* C32: after a transport error on a connection has been handled, the
\* connection has no record in clients and is in no Index entry.
C32_PurgeOnError ==
    last.op = "error" =>
        /\ last.ws \notin DOMAIN clients
        /\ \A r \in DOMAIN activeRegions : ~ InIndex(last.ws, r)

\* C33: the Index has an entry for a region only while a connection with a
\* record is listed in it and holds the region in its subscribedRegions.
C33_NoEmptyIndexEntries ==
    \A r \in DOMAIN activeRegions :
        \E c \in Range(activeRegions[r]) : c \in DOMAIN clients /\ Includes(Subs(c), r)

\* C34: after an accepted subscribe the second envelope sent to the
\* subscriber is a regionData envelope in which every requested region the
\* connection did not hold appears, with its stored content or null, and in
\* which no region appears that the connection held and was listed for.
C34_RegionPush ==
    [][AcceptedSubscribe(last') =>
        /\ Len(sent'[last'.ws]) = 2
        /\ sent'[last'.ws][1].type = "subscriptions"
        /\ sent'[last'.ws][2].type = "regionData"
        /\ \A i \in 1 .. Len(last'.regions) :
              ~ Includes(Subs(last'.ws), last'.regions[i]) =>
                  /\ last'.regions[i] \in DOMAIN sent'[last'.ws][2].data.regions
                  /\ sent'[last'.ws][2].data.regions[last'.regions[i]] =
                        IF last'.regions[i] \in DOMAIN storage
                        THEN [isNull |-> FALSE, text |-> storage[last'.regions[i]]]
                        ELSE [isNull |-> TRUE, text |-> ""]
        /\ \A r \in DOMAIN sent'[last'.ws][2].data.regions :
              ~ (Includes(Subs(last'.ws), r) /\ InIndex(last'.ws, r))]_vars

\* What a regionData mapping holds for a stored region under the tolerant
\* read: the stored value when it has the region's length, null otherwise.
ReadTolerantly(regions, r) ==
    /\ r \in DOMAIN regions
    /\ IF Len(storage[r]) = REGION_WIDTH * REGION_HEIGHT
       THEN regions[r] = [isNull |-> FALSE, text |-> storage[r]]
       ELSE regions[r].isNull

\* C35: the regionData envelope of an accepted load reports every requested
\* region that is stored, with null for a stored value that is not of the
\* region's length and the stored value otherwise; the push of an accepted
\* subscribe reports the stored regions it carries in the same way.
C35_TolerantRead ==
    /\ (last.op = "load" /\ last.ok) =>
          \A r \in Range(last.regions) \cap DOMAIN storage :
              ReadTolerantly(sent[last.ws][1].data.regions, r)
    /\ AcceptedSubscribe(last) =>
          \A r \in DOMAIN sent[last.ws][2].data.regions :
              ReadTolerantly(sent[last.ws][2].data.regions, r)

\* Whether a string is the decimal form of a signed integer: digits, after
\* an optional minus sign.
IsSignedInteger(str) ==
    LET body == IF Len(str) > 0 /\ Char(str, 1) = "-"
                THEN SubSeq(str, 2, Len(str)) ELSE str
    IN  /\ Len(body) > 0
        /\ \A i \in 1 .. Len(body) : Char(body, i) \in Digits

\* Whether a string is "<col>-<row>" for signed integers col and row.
IsCanonicalKey(str) ==
    \E i \in 2 .. (Len(str) - 1) :
        /\ Char(str, i) = "-"
        /\ IsSignedInteger(SubSeq(str, 1, i - 1))
        /\ IsSignedInteger(SubSeq(str, i + 1, Len(str)))

\* C36: isValidRegion accepts the canonical key "<col>-<row>" of every pair
\* of signed integers, a negative col or row included.
C36_SignedKeysAccepted ==
    (last.op = "isValidRegion" /\ IsCanonicalKey(request.regionString)) => last.ok

====
